---- MODULE Spec2Model ----
(***************************************************************************)
(* Editor state machine of afry23/jot: the notes store, the per-tab undo   *)
(* and redo history, the debounced persistence of notes, and the           *)
(* MarkdownEditor component that owns the plain (textarea) and structured  *)
(* (ProseMirror) views of the active tab.                                  *)
(*                                                                         *)
(* Every handler of the program is a function from a record of the whole   *)
(* program state (World) to the record after the handler has run, so that  *)
(* a handler that calls other handlers is the composition the code makes.  *)
(* An action of the state machine is one event-loop turn: the handler of   *)
(* the event, followed by the Svelte flush that runs the reactive          *)
(* statements invalidated by it (microtasks, which no other event can      *)
(* interleave with).                                                       *)
(***************************************************************************)
EXTENDS Integers, Sequences, FiniteSets, TLC

VARIABLES
  activeTab,         \* stores/tabs.ts: activeTab
  notes,             \* stores/notes: notes
  undoHistory,       \* stores/history.ts: undoHistory
  redoHistory,       \* stores/history.ts: redoHistory
  lastSavedContent,  \* stores/history.ts: lastSavedContent
  savingTimeout,     \* window.savingTimeout: 0 (null) or a timer handle
  saveTimers,        \* the save timeouts of the browser that are still pending
  localStorage,      \* localStorage item jot-note-<tab>
  backend,           \* text the backend received last by save_note, per tab
  editorReady,       \* MarkdownEditor: editorReady
  previousTab,       \* MarkdownEditor: previousTab
  viewMode,          \* MarkdownEditor: viewMode
  currentView,       \* MarkdownEditor: currentView
  currentContent,    \* MarkdownEditor: currentContent
  editorLastSaved,   \* MarkdownEditor: the component's own lastSavedContent
  liveViews,         \* views constructed on editorContainer and not destroyed
  updateVersion,     \* MarkdownEditor: updateVersion
  cursorPositions,   \* stores/cursorPostionStore.ts: cursorPositions
  scrollPositions,   \* stores/cursorPostionStore.ts: scrollPositions
  selectionHead,     \* cursor of currentView: selectionStart / selection.head
  scrollTop,         \* scrollTop of the textarea / of editorContainer
  focused,           \* currentView has the focus
  containerListeners,\* listeners registered on editorContainer
  containerChildren, \* views whose elements are children of editorContainer
  pmDone,            \* prosemirror-history of currentView: documents to undo to
  pmUndone,          \* prosemirror-history of currentView: documents to redo to
  tabStorage,        \* localStorage item jot-active-tab, parsed: None or a number
  tabSettings,       \* tab the backend received last by save_active_tab
  timers50,          \* pending setTimeout(.., 50) callbacks, in the order set
  timers10,          \* pending setTimeout(.., 10) callbacks, in the order set
  result,            \* value returned by the last myundo / myredo call
  lastOp,            \* the handler that ran last, and what it found
  steps,             \* user and environment events left
  editLog            \* pre-edit texts of the edits made under SpecBound

vars == << activeTab, notes, undoHistory, redoHistory, lastSavedContent,
           savingTimeout, saveTimers, localStorage, backend, editorReady,
           previousTab, viewMode, currentView, currentContent,
           editorLastSaved, liveViews, updateVersion, cursorPositions,
           scrollPositions, selectionHead, scrollTop, focused,
           containerListeners, containerChildren, pmDone, pmUndone,
           tabStorage, tabSettings,
           timers50, timers10, result, lastOp, steps,
           editLog >>

----------------------------------------------------------------------------
(* Bounds of the model *)

\* tabs are 0..MaxSlot (the program has tabs 0..6)
MaxSlot == 1
\* user and environment events in one behaviour of Spec
MaxSteps == 2
\* user and environment events in one behaviour of SpecHistory
MaxHistorySteps == 3
\* setTimeout(.., 10) callbacks pending at once
MaxPending == 1
\* edits made under SpecBound
MaxEdits == 102
\* user events in one behaviour of SpecPosition
MaxPositionSteps == 3
\* scroll offsets are 0..MaxScroll
MaxScroll == 1

\* Events of a behaviour of SpecLoad after the startup load.
MaxLoadSteps == 1

\* Events of a behaviour of SpecTabs.
MaxTabSteps == 2

\* Events of a behaviour of SpecCommit.
MaxCommitSteps == 3

\* Undo and redo events of a behaviour of SpecCap.
MaxCapSteps == 3

\* Events of a behaviour of SpecStamp.
MaxStampSteps == 2

\* Events of a behaviour of SpecSave.
MaxSaveSteps == 2

\* Events of a behaviour of SpecParse.
MaxParseSteps == 2

\* Events of a behaviour of SpecStore.
MaxStoreSteps == 2

\* Events of a behaviour of SpecKeys.
MaxKeySteps == 3

\* Events of a behaviour of SpecToggle (an edit, then the toggle).
MaxToggleSteps == 2

(* Constants of the program *)
MAX_HISTORY_SIZE == 100

Slots == 0 .. MaxSlot

\* The texts a note or a view can hold.  "a\n" is a text that markdown
\* parsing followed by serialising does not reproduce.
Texts == {"", "a", "a\n"}

None == << >>
Some(x) == << x >>

\* defaultMarkdownSerializer.serialize(defaultMarkdownParser.parse(t)): the
\* text a ProseMirrorView constructed from t reports as its content.  The
\* serialiser ends a document without a trailing newline.
MarkdownRoundTrip(t) == IF t = "a\n" THEN "a" ELSE t

\* the texts a ProseMirrorView can report
SerializedTexts == { MarkdownRoundTrip(t) : t \in Texts }

NoView == [mode |-> "none", content |-> "", tab |-> -1]

\* new ViewClass(editorContainer, content), built while tab is active
MarkdownView(content, tab) ==
  [mode |-> "markdown", content |-> content, tab |-> tab]

ProseMirrorView(content, tab) ==
  [mode |-> "prosemirror", content |-> MarkdownRoundTrip(content), tab |-> tab]

NewView(mode, content, tab) ==
  IF mode = "markdown" THEN MarkdownView(content, tab)
  ELSE ProseMirrorView(content, tab)

----------------------------------------------------------------------------
(* The program state as one record.  dirty and upd are not state of the    *)
(* program: dirty says that $notes or $activeTab was invalidated in this   *)
(* turn, upd records the updateNote call of this turn.                     *)

World ==
  [ activeTab |-> activeTab, notes |-> notes, undoHistory |-> undoHistory,
    redoHistory |-> redoHistory, lastSavedContent |-> lastSavedContent,
    savingTimeout |-> savingTimeout, saveTimers |-> saveTimers,
    localStorage |-> localStorage, backend |-> backend,
    editorReady |-> editorReady, previousTab |-> previousTab,
    viewMode |-> viewMode, currentView |-> currentView,
    currentContent |-> currentContent, editorLastSaved |-> editorLastSaved,
    liveViews |-> liveViews, updateVersion |-> updateVersion,
    cursorPositions |-> cursorPositions, scrollPositions |-> scrollPositions,
    selectionHead |-> selectionHead, scrollTop |-> scrollTop,
    focused |-> focused, containerListeners |-> containerListeners,
    containerChildren |-> containerChildren,
    pmDone |-> pmDone, pmUndone |-> pmUndone,
    tabStorage |-> tabStorage, tabSettings |-> tabSettings,
    timers50 |-> timers50, timers10 |-> timers10, result |-> result,
    dirty |-> FALSE, upd |-> None, parseThrows |-> FALSE ]

\* the state of the program when the page has loaded the notes n and the
\* MarkdownEditor component has been created and not yet mounted
FreshWorld(n) ==
  [ activeTab |-> 0, notes |-> n,
    undoHistory |-> [s \in Slots |-> << >>],
    redoHistory |-> [s \in Slots |-> << >>],
    lastSavedContent |-> n,
    savingTimeout |-> 0, saveTimers |-> {},
    localStorage |-> n, backend |-> n,
    editorReady |-> FALSE, previousTab |-> -1,
    viewMode |-> "prosemirror", currentView |-> NoView,
    currentContent |-> n[0], editorLastSaved |-> "",
    liveViews |-> 0, updateVersion |-> 0,
    cursorPositions |-> [s \in Slots |-> None],
    scrollPositions |-> [s \in Slots |-> None],
    selectionHead |-> 0, scrollTop |-> 0, focused |-> FALSE,
    containerListeners |-> 0, containerChildren |-> 0,
    pmDone |-> << >>, pmUndone |-> << >>,
    tabStorage |-> None, tabSettings |-> None,
    timers50 |-> << >>, timers10 |-> << >>, result |-> None,
    dirty |-> FALSE, upd |-> None, parseThrows |-> FALSE ]

----------------------------------------------------------------------------
(* stores/history.ts *)

Last(s) == s[Len(s)]
Front(s) == SubSeq(s, 1, Len(s) - 1)

Min(a, b) == IF a < b THEN a ELSE b

\* Array.prototype.slice(-n)
SliceLast(s, n) == IF Len(s) > n THEN SubSeq(s, Len(s) - n + 1, Len(s)) ELSE s

\* pushToHistory that leaves the redo stack as it is
pushToHistory_keepRedo(w, tabIndex, content) ==
  LET currentLastSaved == w.lastSavedContent[tabIndex]
      stack == w.undoHistory[tabIndex]
      pushed == IF Len(stack) = 0 \/ Last(stack) # currentLastSaved
                THEN Append(stack, currentLastSaved)
                ELSE stack
      limited == IF Len(pushed) > MAX_HISTORY_SIZE
                 THEN SliceLast(pushed, MAX_HISTORY_SIZE)
                 ELSE pushed
  IN IF currentLastSaved # content
     THEN [w EXCEPT !.undoHistory[tabIndex] = limited,
                    !.lastSavedContent[tabIndex] = content]
     ELSE w

\* pushToHistory that drops the newest snapshot when the stack is full
pushToHistory_keepOldest(w, tabIndex, content) ==
  LET currentLastSaved == w.lastSavedContent[tabIndex]
      stack == w.undoHistory[tabIndex]
      pushed == IF Len(stack) = 0 \/ Last(stack) # currentLastSaved
                THEN Append(stack, currentLastSaved)
                ELSE stack
      limited == IF Len(pushed) > MAX_HISTORY_SIZE
                 THEN SubSeq(pushed, 1, MAX_HISTORY_SIZE)
                 ELSE pushed
  IN IF currentLastSaved # content
     THEN [w EXCEPT !.undoHistory[tabIndex] = limited,
                    !.redoHistory[tabIndex] = << >>,
                    !.lastSavedContent[tabIndex] = content]
     ELSE w

\* pushToHistory with neither comparison: every call pushes the last saved
\* text
pushToHistory_always(w, tabIndex, content) ==
  LET currentLastSaved == w.lastSavedContent[tabIndex]
      pushed == Append(w.undoHistory[tabIndex], currentLastSaved)
      limited == IF Len(pushed) > MAX_HISTORY_SIZE
                 THEN SliceLast(pushed, MAX_HISTORY_SIZE)
                 ELSE pushed
  IN [w EXCEPT !.undoHistory[tabIndex] = limited,
               !.redoHistory[tabIndex] = << >>,
               !.lastSavedContent[tabIndex] = content]

\* pushToHistory that clears the redo stacks of all tabs
pushToHistory_clearAllRedo(w, tabIndex, content) ==
  LET currentLastSaved == w.lastSavedContent[tabIndex]
      stack == w.undoHistory[tabIndex]
      pushed == IF Len(stack) = 0 \/ Last(stack) # currentLastSaved
                THEN Append(stack, currentLastSaved)
                ELSE stack
      limited == IF Len(pushed) > MAX_HISTORY_SIZE
                 THEN SliceLast(pushed, MAX_HISTORY_SIZE)
                 ELSE pushed
  IN IF currentLastSaved # content
     THEN [w EXCEPT !.undoHistory[tabIndex] = limited,
                    !.redoHistory = [s \in Slots |-> << >>],
                    !.lastSavedContent[tabIndex] = content]
     ELSE w

pushToHistory(w, tabIndex, content) ==
  LET currentLastSaved == w.lastSavedContent[tabIndex]
      stack == w.undoHistory[tabIndex]
      pushed == IF Len(stack) = 0 \/ Last(stack) # currentLastSaved
                THEN Append(stack, currentLastSaved)
                ELSE stack
      limited == IF Len(pushed) > MAX_HISTORY_SIZE
                 THEN SliceLast(pushed, MAX_HISTORY_SIZE)
                 ELSE pushed
  IN IF currentLastSaved # content
     THEN [w EXCEPT !.undoHistory[tabIndex] = limited,
                    !.redoHistory[tabIndex] = << >>,
                    !.lastSavedContent[tabIndex] = content]
     ELSE w

\* myundo that answers an empty stack with the last saved text
myundo_emptyReturnsSaved(w, tabIndex) ==
  LET stack == w.undoHistory[tabIndex] IN
  IF Len(stack) > 0
  THEN LET previousContent == Last(stack) IN
       [w EXCEPT !.undoHistory[tabIndex] = Front(stack),
                 !.redoHistory[tabIndex] =
                     Append(@, w.lastSavedContent[tabIndex]),
                 !.lastSavedContent[tabIndex] = previousContent,
                 !.result = Some(previousContent)]
  ELSE [w EXCEPT !.redoHistory[tabIndex] =
                     Append(@, w.lastSavedContent[tabIndex]),
                 !.result = Some(w.lastSavedContent[tabIndex])]

myundo(w, tabIndex) ==
  LET stack == w.undoHistory[tabIndex] IN
  IF Len(stack) > 0
  THEN LET previousContent == Last(stack) IN
       [w EXCEPT !.undoHistory[tabIndex] = Front(stack),
                 !.redoHistory[tabIndex] =
                     Append(@, w.lastSavedContent[tabIndex]),
                 !.lastSavedContent[tabIndex] = previousContent,
                 !.result = Some(previousContent)]
  ELSE [w EXCEPT !.result = None]

myredo(w, tabIndex) ==
  LET stack == w.redoHistory[tabIndex] IN
  IF Len(stack) > 0
  THEN LET nextContent == Last(stack) IN
       [w EXCEPT !.redoHistory[tabIndex] = Front(stack),
                 !.undoHistory[tabIndex] =
                     Append(@, w.lastSavedContent[tabIndex]),
                 !.lastSavedContent[tabIndex] = nextContent,
                 !.result = Some(nextContent)]
  ELSE [w EXCEPT !.result = None]

----------------------------------------------------------------------------
(* utils/persistence: saveNote and the timeout it sets *)

\* the handle setTimeout returns: one no pending timer and no kept handle has
FreshHandle(w) ==
  LET used == { tm.id : tm \in w.saveTimers } \cup { w.savingTimeout }
  IN CHOOSE i \in 1 .. (Cardinality(used) + 1) :
       i \notin used /\ \A j \in 1 .. (i - 1) : j \in used

clearTimeout(timers, handle) == { tm \in timers : tm.id # handle }

\* saveNote that leaves the pending timeout to fire
saveNote_noClear(w, tabIndex, content) ==
  LET handle == FreshHandle(w)
      coalesced == \E tm \in w.saveTimers :
                      tm.tabIndex = tabIndex /\ tm.content # content
  IN [w EXCEPT !.localStorage[tabIndex] = content,
               !.saveTimers = @ \cup
                   { [id |-> handle, tabIndex |-> tabIndex,
                      content |-> content, coalesced |-> coalesced] },
               !.savingTimeout = handle]

saveNote(w, tabIndex, content) ==
  LET cleared == IF w.savingTimeout # 0
                 THEN clearTimeout(w.saveTimers, w.savingTimeout)
                 ELSE w.saveTimers
      handle == FreshHandle(w)
      \* coalesced: this call replaced a pending write of another text for
      \* the same tab
      coalesced == \E tm \in w.saveTimers \ cleared :
                      tm.tabIndex = tabIndex /\ tm.content # content
  IN [w EXCEPT !.localStorage[tabIndex] = content,
               !.saveTimers = cleared \cup
                   { [id |-> handle, tabIndex |-> tabIndex,
                      content |-> content, coalesced |-> coalesced] },
               !.savingTimeout = handle]

\* the timeout callback: await invoke("save_note", {tabIndex, content})
saveTimeoutCallback(w, tm) ==
  [w EXCEPT !.backend[tm.tabIndex] = tm.content,
            !.saveTimers = @ \ {tm}]

\* the timeout callback when invoke("save_note") rejects: the callback is
\* outside the try of saveNote, which has returned, so the rejection is not
\* handled; nothing is written and no other write is set up
saveTimeoutCallbackRejected(w, tm) ==
  [w EXCEPT !.saveTimers = @ \ {tm}]

\* loadNotes, and the initializeHistory($notes) that the page calls after
\* it.  ls is localStorage, where getItem answers a missing item and an
\* empty one alike for the test if (content); stored is the answer of
\* load_notes, None for a tab it does not name.
loadNotes(w, stored) ==
  LET fromLocal == [s \in Slots |-> w.localStorage[s]]
      notesData == [s \in Slots |->
                      IF stored[s] # None THEN stored[s][1] ELSE fromLocal[s]]
  IN [w EXCEPT !.notes = notesData,
               !.localStorage =
                   [s \in Slots |->
                      IF stored[s] # None THEN stored[s][1] ELSE @[s]],
               !.backend =
                   [s \in Slots |->
                      IF stored[s] # None THEN stored[s][1] ELSE ""],
               !.lastSavedContent = notesData,
               !.currentContent = notesData[w.activeTab],
               !.dirty = TRUE]

----------------------------------------------------------------------------
(* stores/notes *)

\* updateNote that writes the text to tab 0 whatever the tab
updateNote_firstSlot(w, tabIndex, content) ==
  LET w1 == pushToHistory(w, tabIndex, content)
      w2 == [w1 EXCEPT !.notes[0] = content,
                       !.dirty = TRUE,
                       !.upd = Some([tab |-> tabIndex, text |-> content])]
  IN IF content = "" THEN saveNote(w2, tabIndex, "") ELSE w2

updateNote(w, tabIndex, content) ==
  LET w1 == pushToHistory(w, tabIndex, content)
      w2 == [w1 EXCEPT !.notes[tabIndex] = content,
                       !.dirty = TRUE,
                       !.upd = Some([tab |-> tabIndex, text |-> content])]
  IN IF content = "" THEN saveNote(w2, tabIndex, "") ELSE w2

\* routes/+page.svelte: $: if ($notes[$activeTab]) saveNote(...), run by the
\* flush of a turn that invalidated $notes or $activeTab.  A turn that
\* invalidates them more than once ends with this statement run last.
pageAutoSave(w) ==
  IF w.dirty /\ w.notes[w.activeTab] # ""
  THEN saveNote(w, w.activeTab, w.notes[w.activeTab])
  ELSE w

----------------------------------------------------------------------------
(* stores/tabs.ts *)

\* MAX_TAB_INDEX: the model has the tabs 0 .. MaxSlot
MAX_TAB_INDEX == MaxSlot

\* saveActiveTab: the localStorage item and the backend's save_active_tab
saveActiveTab(w, tabIndex) ==
  [w EXCEPT !.tabStorage = Some(tabIndex), !.tabSettings = Some(tabIndex)]

\* setActiveTab with saveActiveTab called before the test of the range
setActiveTab_saveFirst(w, tabIndex) ==
  saveActiveTab(IF tabIndex >= 0 /\ tabIndex <= MAX_TAB_INDEX
                THEN [w EXCEPT !.activeTab = tabIndex,
                               !.dirty = @ \/ (tabIndex # w.activeTab)]
                ELSE w,
                tabIndex)

setActiveTab(w, tabIndex) ==
  IF tabIndex >= 0 /\ tabIndex <= MAX_TAB_INDEX
  THEN saveActiveTab([w EXCEPT !.activeTab = tabIndex,
                               !.dirty = @ \/ (tabIndex # w.activeTab)],
                     tabIndex)
  ELSE w

\* the value setActiveTab returns
setActiveTabReturns(tabIndex) == tabIndex >= 0 /\ tabIndex <= MAX_TAB_INDEX

\* loadActiveTab: the parsed localStorage item first, then the activeTab of
\* the backend's settings; settingsTab is None when the settings have none
loadActiveTab(w, settingsTab) ==
  LET w1 == IF w.tabStorage # None /\ w.tabStorage[1] >= 0
               /\ w.tabStorage[1] <= MAX_TAB_INDEX
            THEN [w EXCEPT !.activeTab = w.tabStorage[1],
                           !.dirty = @ \/ (w.tabStorage[1] # w.activeTab)]
            ELSE w
  IN IF settingsTab # None /\ settingsTab[1] >= 0
        /\ settingsTab[1] <= MAX_TAB_INDEX
     THEN [w1 EXCEPT !.activeTab = settingsTab[1],
                     !.dirty = @ \/ (settingsTab[1] # w1.activeTab),
                     !.tabStorage = settingsTab]
     ELSE w1

----------------------------------------------------------------------------
(* components/MarkdownEditor.svelte *)

\* doc.content.size of the document parsed from content: one paragraph,
\* whose opening and closing each take one position
docSize(content) == Len(MarkdownRoundTrip(content)) + 2

\* The effects of new ViewClass(editorContainer, content) besides the view
\* object: a textarea whose value was set has its cursor at the end of the
\* value, an EditorState created without a selection has it at the start of
\* the first paragraph; the container is emptied (innerHTML = "") before
\* the view's element is added, and is scrolled to the top; the
\* ProseMirrorView registers a click and a scroll listener on the container.
constructed(w, mode, content) ==
  [w EXCEPT !.liveViews = @ + 1,
            !.containerChildren = 1,
            !.selectionHead = IF mode = "markdown" THEN Len(content) ELSE 1,
            !.scrollTop = 0,
            !.focused = FALSE,
            !.pmDone = << >>, !.pmUndone = << >>,
            !.containerListeners = IF mode = "markdown" THEN @ ELSE @ + 2]

\* currentView.destroy(); currentView = null.  Both destroy methods empty
\* the container; neither removes a listener from the container.
destroyCurrentView(w) ==
  IF w.currentView # NoView
  THEN [w EXCEPT !.currentView = NoView, !.liveViews = @ - 1,
                 !.containerChildren = 0,
                 !.selectionHead = 0, !.scrollTop = 0, !.focused = FALSE,
                 !.pmDone = << >>, !.pmUndone = << >>]
  ELSE w

\* MarkdownView.saveCursorPosition / ProseMirrorView.saveCursorPosition
saveCursorPosition(w) ==
  [w EXCEPT !.cursorPositions[w.activeTab] = Some(w.selectionHead)]

\* MarkdownView.saveScrollPosition / ProseMirrorView.saveScrollPosition
saveScrollPosition(w) ==
  [w EXCEPT !.scrollPositions[w.activeTab] = Some(w.scrollTop)]

\* MarkdownView.setCursorPosition: the textarea takes selectionStart as an
\* unsigned long and limits it to the length of its value
MarkdownSetCursorPosition(w, position) ==
  LET length == Len(w.currentView.content) IN
  [w EXCEPT !.selectionHead =
                IF position < 0 \/ position > length THEN length
                ELSE position]

\* ProseMirrorView.setCursorPosition without Math.min: TextSelection.create
\* throws a RangeError for a position outside the document too
ProseMirrorSetCursorPosition_noMin(w, position) ==
  LET size == docSize(w.currentView.content) IN
  IF position < 0 \/ position > size
  THEN w
  ELSE saveCursorPosition([w EXCEPT !.selectionHead = position])

\* ProseMirrorView.setCursorPosition: doc.resolve throws a RangeError for a
\* negative position, which the catch logs; dispatch runs the view's
\* dispatchTransaction, which saves the cursor (selectionSet)
ProseMirrorSetCursorPosition(w, position) ==
  LET size == docSize(w.currentView.content)
      resolvedPos == IF position < size THEN position ELSE size
  IN IF resolvedPos < 0
     THEN w
     ELSE saveCursorPosition([w EXCEPT !.selectionHead = resolvedPos])

\* setScrollPosition of both views
setScrollPosition(w, top) == [w EXCEPT !.scrollTop = top]

applyCursorAndScrollPosition(w, position, top) ==
  IF w.currentView # NoView /\ w.viewMode = "prosemirror"
     /\ w.currentView.mode = "prosemirror"
  THEN setScrollPosition(ProseMirrorSetCursorPosition(w, position), top)
  ELSE IF w.currentView # NoView /\ w.viewMode = "markdown"
          /\ w.currentView.mode = "markdown"
       THEN setScrollPosition(MarkdownSetCursorPosition(w, position), top)
       ELSE w

\* the callback without the comparison of the versions
timeout50Callback_noVersion(w, tm) ==
  IF tm.tab # w.activeTab
  THEN w
  ELSE IF w.currentView # NoView
       THEN [applyCursorAndScrollPosition(w, tm.position, tm.scrollTop)
               EXCEPT !.focused = TRUE]
       ELSE w

\* the callback updateEditorContent sets with setTimeout(.., 50)
timeout50Callback(w, tm) ==
  IF tm.version # w.updateVersion \/ tm.tab # w.activeTab
  THEN w
  ELSE IF w.currentView # NoView
       THEN [applyCursorAndScrollPosition(w, tm.position, tm.scrollTop)
               EXCEPT !.focused = TRUE]
       ELSE w

\* new ProseMirrorView throws: defaultMarkdownParser.parse, called with no
\* try around it, throws for the text of this turn.  The constructor has
\* emptied the container by then; the statement that called it is
\* abandoned, and so are the statements after it.
constructorThrows(w, mode) == w.parseThrows /\ mode = "prosemirror"

\* updateEditorContent that takes the default position (the end of the
\* text, scrolled to the top) whatever the stores hold
updateEditorContent_defaultPosition(w) ==
  LET tabIndex == w.activeTab
      thisVersion == w.updateVersion + 1
      w1 == [w EXCEPT !.updateVersion = thisVersion,
                      !.currentContent = w.notes[tabIndex],
                      !.editorLastSaved = w.notes[tabIndex]]
      w2 == destroyCurrentView(w1)
      w3 == constructed(w2, w2.viewMode, w2.currentContent)
  IN [w3 EXCEPT !.currentView =
                    NewView(w2.viewMode, w2.currentContent, tabIndex),
                !.timers50 =
                    Append(@, [version |-> thisVersion, tab |-> tabIndex,
                               position |-> Len(w1.currentContent),
                               scrollTop |-> 0,
                               ahead |-> Len(w.timers10)])]

\* updateEditorContent that leaves a view that exists in place
updateEditorContent_keepView(w) ==
  LET tabIndex == w.activeTab
      thisVersion == w.updateVersion + 1
      w1 == [w EXCEPT !.updateVersion = thisVersion,
                      !.currentContent = w.notes[tabIndex],
                      !.editorLastSaved = w.notes[tabIndex]]
      w3 == IF w1.currentView # NoView THEN w1
            ELSE [constructed(w1, w1.viewMode, w1.currentContent)
                    EXCEPT !.currentView =
                               NewView(w1.viewMode, w1.currentContent, tabIndex)]
  IN [w3 EXCEPT !.timers50 =
                    Append(@, [version |-> thisVersion, tab |-> tabIndex,
                               position |-> Len(w1.currentContent),
                               scrollTop |-> 0,
                               ahead |-> Len(w.timers10)])]

\* The part before await tick() and the part after it run in one turn: the
\* continuation is a microtask of the flush that called the function.
\* No other call of the function can run between the two parts, so the
\* checks of updateVersion and $activeTab after the await pass.  ahead is
\* the number of setTimeout(.., 10) callbacks that are pending when the
\* timeout of 50 ms is set: they run before it.
updateEditorContent(w) ==
  LET tabIndex == w.activeTab
      thisVersion == w.updateVersion + 1
      w1 == [w EXCEPT !.updateVersion = thisVersion,
                      !.currentContent = w.notes[tabIndex],
                      !.editorLastSaved = w.notes[tabIndex]]
      newPosition == IF w.cursorPositions[tabIndex] # None
                     THEN w.cursorPositions[tabIndex][1]
                     ELSE Len(w1.currentContent)
      newScrollTop == IF w.scrollPositions[tabIndex] # None
                      THEN w.scrollPositions[tabIndex][1]
                      ELSE 0
      w2 == destroyCurrentView(w1)
      w3 == constructed(w2, w2.viewMode, w2.currentContent)
  IN IF constructorThrows(w2, w2.viewMode)
     THEN [w2 EXCEPT !.containerChildren = 0]
     ELSE [w3 EXCEPT !.currentView =
                         NewView(w2.viewMode, w2.currentContent, tabIndex),
                     !.timers50 =
                         Append(@, [version |-> thisVersion,
                                    tab |-> tabIndex,
                                    position |-> newPosition,
                                    scrollTop |-> newScrollTop,
                                    ahead |-> Len(w.timers10)])]

\* the reactive block without the commit of the outgoing view's text
tabChange_noCommit(w) ==
  IF w.activeTab # w.previousTab /\ w.editorReady
  THEN updateEditorContent([w EXCEPT !.previousTab = w.activeTab])
  ELSE w

\* $: if ($activeTab !== previousTab && editorReady) { ... }
tabChange(w) ==
  IF w.activeTab # w.previousTab /\ w.editorReady
  THEN LET w1 == IF w.currentView # NoView /\ w.previousTab >= 0
                    /\ w.currentView.content # w.notes[w.previousTab]
                 THEN updateNote(w, w.previousTab, w.currentView.content)
                 ELSE w
           w2 == [w1 EXCEPT !.previousTab = w1.activeTab]
       IN updateEditorContent(w2)
  ELSE w

handleContentChange(w) ==
  IF w.currentView = NoView \/ ~w.editorReady
  THEN w
  ELSE LET newContent == w.currentView.content IN
       IF newContent # w.notes[w.activeTab] /\ w.activeTab = w.previousTab
       THEN LET w1 == updateNote(w, w.activeTab, newContent) IN
            IF newContent # w1.editorLastSaved
            THEN [saveNote(w1, w1.activeTab, newContent)
                    EXCEPT !.editorLastSaved = newContent]
            ELSE w1
       ELSE w

\* ProseMirrorView: the user's edit of the document to the text t.  The
\* history plugin records the document before the edit; dispatchTransaction
\* calls handleContentChange (docChanged).
dispatchEdit(w, t) ==
  handleContentChange(
    [w EXCEPT !.currentView.content = t,
              !.pmDone = Append(@, w.currentView.content),
              !.pmUndone = << >>])

\* ProseMirrorView keymap "Mod-z": undo of prosemirror-history.  With
\* nothing to undo the command returns false and no transaction is
\* dispatched.
keymapUndo(w) ==
  IF w.pmDone = << >>
  THEN w
  ELSE handleContentChange(
         [w EXCEPT !.currentView.content = Last(w.pmDone),
                   !.pmDone = Front(w.pmDone),
                   !.pmUndone = Append(@, w.currentView.content)])

\* ProseMirrorView keymap "Mod-y" and "Mod-Shift-z": redo of
\* prosemirror-history
keymapRedo(w) ==
  IF w.pmUndone = << >>
  THEN w
  ELSE handleContentChange(
         [w EXCEPT !.currentView.content = Last(w.pmUndone),
                   !.pmUndone = Front(w.pmUndone),
                   !.pmDone = Append(@, w.currentView.content)])

handleUndo(w) ==
  LET w1 == myundo(w, w.activeTab) IN
  IF w1.result # None
  THEN LET previousContent == w1.result[1]
           w2 == [w1 EXCEPT !.notes[w1.activeTab] = previousContent,
                            !.dirty = TRUE]
       IN IF w2.viewMode = "markdown" /\ w2.currentView.mode = "markdown"
          THEN [w2 EXCEPT !.currentView.content = previousContent]
          ELSE w2
  ELSE w1

handleRedo(w) ==
  LET w1 == myredo(w, w.activeTab) IN
  IF w1.result # None
  THEN LET nextContent == w1.result[1]
           w2 == [w1 EXCEPT !.notes[w1.activeTab] = nextContent,
                            !.dirty = TRUE]
       IN IF w2.viewMode = "markdown" /\ w2.currentView.mode = "markdown"
          THEN [w2 EXCEPT !.currentView.content = nextContent]
          ELSE w2
  ELSE w1

Timer10(kind, mode, tab) == [kind |-> kind, mode |-> mode, tab |-> tab]

\* switchView that takes the text of the store for the view to come
switchView_fromStore(w, newMode) ==
  IF w.viewMode = newMode /\ w.currentView # NoView
  THEN w
  ELSE LET w1 == IF w.currentView # NoView
                 THEN destroyCurrentView(
                        [w EXCEPT !.currentContent = w.notes[w.activeTab]])
                 ELSE w
       IN [w1 EXCEPT !.timers10 =
                         Append(@, Timer10("switchView", newMode, -1))]

switchView(w, newMode) ==
  IF w.viewMode = newMode /\ w.currentView # NoView
  THEN w
  ELSE LET w1 == IF w.currentView # NoView
                 THEN destroyCurrentView(
                        [w EXCEPT !.currentContent = w.currentView.content])
                 ELSE w
       IN [w1 EXCEPT !.timers10 =
                         Append(@, Timer10("switchView", newMode, -1))]

\* the callback switchView sets: construct the view, then set viewMode
switchViewCallback(w, newMode) ==
  IF constructorThrows(w, newMode)
  THEN [w EXCEPT !.containerChildren = 0]
  ELSE [constructed(w, newMode, w.currentContent)
          EXCEPT !.currentView =
                     NewView(newMode, w.currentContent, w.activeTab),
                 !.viewMode = newMode,
                 !.timers10 = Append(@, Timer10("focus", "", -1))]

\* the callback the callback of switchView sets: focus the view
focusCallback(w) ==
  IF w.currentView # NoView THEN [w EXCEPT !.focused = TRUE] ELSE w

handleGlobalKeyDown(w) ==
  switchView(w, IF w.viewMode = "prosemirror" THEN "markdown"
                ELSE "prosemirror")

onMount(w) ==
  [switchView(w, "prosemirror") EXCEPT !.editorReady = TRUE]

\* MarkdownView.insertTimestamp: the textarea is set to the stored text with
\* the timestamp spliced in; handleContentChange is not called
insertTimestamp(w, newContent) ==
  [w EXCEPT !.currentView.content = newContent]

----------------------------------------------------------------------------
(* stores/keyboardShortcuts.ts *)

\* handleKeydown, Ctrl+1..7: blur the focused editor element (blurred says
\* whether the view had the focus), then setTimeout(setActiveTab, 10)
handleKeydown(w, tabIndex, blurred) ==
  LET w1 == IF blurred /\ w.currentView.mode = "prosemirror"
            THEN handleContentChange(w)
            ELSE w
  IN IF tabIndex >= 0 /\ tabIndex <= 6
     THEN [w1 EXCEPT !.timers10 =
                         Append(@, Timer10("setActiveTab", "", tabIndex))]
     ELSE w1

----------------------------------------------------------------------------
(* components/GrammarChecker.svelte *)

applySuggestion(w, newContent) ==
  [w EXCEPT !.notes[w.activeTab] = newContent, !.dirty = TRUE]

----------------------------------------------------------------------------
(* One turn of the event loop *)

\* the flush after the handler: MarkdownEditor's reactive block, then the
\* page's auto-save statement
flush(w) == pageAutoSave(tabChange(w))

\* the state a turn leaves to the next turn
EndTurn(w) == [flush(w) EXCEPT !.dirty = FALSE, !.upd = None]

Set(w) ==
  /\ activeTab' = w.activeTab
  /\ notes' = w.notes
  /\ undoHistory' = w.undoHistory
  /\ redoHistory' = w.redoHistory
  /\ lastSavedContent' = w.lastSavedContent
  /\ savingTimeout' = w.savingTimeout
  /\ saveTimers' = w.saveTimers
  /\ localStorage' = w.localStorage
  /\ backend' = w.backend
  /\ editorReady' = w.editorReady
  /\ previousTab' = w.previousTab
  /\ viewMode' = w.viewMode
  /\ currentView' = w.currentView
  /\ currentContent' = w.currentContent
  /\ editorLastSaved' = w.editorLastSaved
  /\ liveViews' = w.liveViews
  /\ updateVersion' = w.updateVersion
  /\ cursorPositions' = w.cursorPositions
  /\ scrollPositions' = w.scrollPositions
  /\ selectionHead' = w.selectionHead
  /\ scrollTop' = w.scrollTop
  /\ focused' = w.focused
  /\ containerListeners' = w.containerListeners
  /\ containerChildren' = w.containerChildren
  /\ pmDone' = w.pmDone
  /\ pmUndone' = w.pmUndone
  /\ tabStorage' = w.tabStorage
  /\ tabSettings' = w.tabSettings
  /\ timers50' = w.timers50
  /\ timers10' = w.timers10
  /\ result' = w.result

Start(w, budget) ==
  /\ activeTab = w.activeTab
  /\ notes = w.notes
  /\ undoHistory = w.undoHistory
  /\ redoHistory = w.redoHistory
  /\ lastSavedContent = w.lastSavedContent
  /\ savingTimeout = w.savingTimeout
  /\ saveTimers = w.saveTimers
  /\ localStorage = w.localStorage
  /\ backend = w.backend
  /\ editorReady = w.editorReady
  /\ previousTab = w.previousTab
  /\ viewMode = w.viewMode
  /\ currentView = w.currentView
  /\ currentContent = w.currentContent
  /\ editorLastSaved = w.editorLastSaved
  /\ liveViews = w.liveViews
  /\ updateVersion = w.updateVersion
  /\ cursorPositions = w.cursorPositions
  /\ scrollPositions = w.scrollPositions
  /\ selectionHead = w.selectionHead
  /\ scrollTop = w.scrollTop
  /\ focused = w.focused
  /\ containerListeners = w.containerListeners
  /\ containerChildren = w.containerChildren
  /\ pmDone = w.pmDone
  /\ pmUndone = w.pmUndone
  /\ tabStorage = w.tabStorage
  /\ tabSettings = w.tabSettings
  /\ timers50 = w.timers50
  /\ timers10 = w.timers10
  /\ result = w.result
  /\ lastOp = [kind |-> "init", tab |-> w.activeTab, pre |-> None,
               upd |-> None, flag |-> FALSE, prev |-> "init"]
  /\ steps = budget
  /\ editLog = << >>

\* what the turn before this one was, for the turns that follow an undo or
\* a redo that returned a text
PrevKind == IF lastOp.kind \in {"undo", "redo"} /\ lastOp.pre # None
            THEN lastOp.kind
            ELSE "other"

\* run the turn whose handler left the state w
TurnLog(w, kind, tab, pre, flag) ==
  LET f == flush(w) IN
  /\ Set(f)
  /\ lastOp' = [kind |-> kind, tab |-> tab, pre |-> pre, upd |-> f.upd,
                flag |-> flag, prev |-> PrevKind]

Turn(w, kind, tab, pre, flag) ==
  /\ TurnLog(w, kind, tab, pre, flag)
  /\ UNCHANGED editLog

\* a turn started by the user or by the environment
Event == /\ steps > 0
         /\ steps' = steps - 1

\* the text of the view, when the view was built for the active tab
ViewText == IF currentView # NoView /\ currentView.tab = activeTab
            THEN Some(currentView.content)
            ELSE None

\* a debounced write of the active tab is pending
SavePending == \E tm \in saveTimers : tm.tabIndex = activeTab

Mount ==
  /\ ~editorReady
  /\ Turn(onMount(World), "mount", activeTab, None, FALSE)
  /\ UNCHANGED steps

TypeMarkdown ==
  /\ editorReady /\ currentView.mode = "markdown"
  /\ Event
  /\ \E t \in Texts \ {currentView.content} :
       Turn(handleContentChange([World EXCEPT !.currentView.content = t]),
            "type", activeTab, Some(notes[activeTab]), FALSE)

TypeProseMirror ==
  /\ editorReady /\ currentView.mode = "prosemirror"
  /\ Event
  /\ \E t \in SerializedTexts \ {currentView.content} :
       Turn(dispatchEdit(World, t), "type", activeTab,
            Some(notes[activeTab]), FALSE)

\* Ctrl+Z in the structured view
KeymapUndo ==
  /\ editorReady /\ currentView.mode = "prosemirror"
  /\ Event
  /\ Turn(keymapUndo(World), "keymapUndo", activeTab,
          IF undoHistory[activeTab] = << >> THEN None
          ELSE Some(Last(undoHistory[activeTab])), pmDone # << >>)

\* Ctrl+Y or Ctrl+Shift+Z in the structured view
KeymapRedo ==
  /\ editorReady /\ currentView.mode = "prosemirror"
  /\ Event
  /\ Turn(keymapRedo(World), "keymapRedo", activeTab,
          IF redoHistory[activeTab] = << >> THEN None
          ELSE Some(Last(redoHistory[activeTab])), pmUndone # << >>)

InsertTimestamp ==
  /\ editorReady /\ currentView.mode = "markdown"
  /\ Event
  /\ \E t \in Texts \ {"", notes[activeTab]} :
       Turn(insertTimestamp(World, t), "timestamp", activeTab, None, FALSE)

BlurProseMirror ==
  /\ editorReady /\ currentView.mode = "prosemirror"
  /\ Event
  /\ Turn(handleContentChange(World), "blur", activeTab, None, FALSE)

Undo ==
  /\ editorReady /\ currentView.mode = "markdown"
  /\ Event
  /\ Turn(handleUndo(World), "undo", activeTab,
          IF undoHistory[activeTab] = << >> THEN None
          ELSE Some(Last(undoHistory[activeTab])), FALSE)

Redo ==
  /\ editorReady /\ currentView.mode = "markdown"
  /\ Event
  /\ Turn(handleRedo(World), "redo", activeTab,
          IF redoHistory[activeTab] = << >> THEN None
          ELSE Some(Last(redoHistory[activeTab])), FALSE)

ToggleMode ==
  /\ editorReady
  /\ Len(timers10) < MaxPending
  /\ Event
  /\ Turn(handleGlobalKeyDown(World), "toggle", activeTab, ViewText, FALSE)

KeydownSwitch ==
  /\ editorReady
  /\ Len(timers10) < MaxPending
  /\ Event
  /\ \E t \in Slots, blurred \in BOOLEAN :
       Turn(handleKeydown(World, t, blurred), "keydown", activeTab, ViewText,
            FALSE)

SwitchKind(t) == IF t # activeTab THEN "switch" ELSE "sameTab"

\* Header.svelte: handleTabClick
ClickTab ==
  /\ editorReady
  /\ Event
  /\ \E t \in Slots :
       Turn(setActiveTab(World, t), SwitchKind(t), activeTab, ViewText,
            SavePending)

\* routes/+page.svelte: the listener of note-updated-<i>
SyncUpdate ==
  /\ editorReady
  /\ Event
  /\ \E i \in Slots, t \in Texts :
       Turn(updateNote(World, i, t), "sync", i, Some(notes[i]), FALSE)

ApplySuggestion ==
  /\ editorReady /\ notes[activeTab] # ""
  /\ Event
  /\ \E t \in Texts \ {"", notes[activeTab]} :
       Turn(applySuggestion(World, t), "suggestion", activeTab, None, FALSE)

\* the cursor positions the user can choose in the view
CursorPositions ==
  IF currentView.mode = "markdown"
  THEN 0 .. Len(currentView.content)
  ELSE 1 .. (docSize(currentView.content) - 1)

\* the user moves the cursor in the view (click, keyup and select listeners
\* of the textarea; dispatchTransaction with selectionSet)
MoveCursor ==
  /\ editorReady /\ currentView # NoView
  /\ Event
  /\ \E p \in CursorPositions \ {selectionHead} :
       Turn(saveCursorPosition([World EXCEPT !.selectionHead = p]),
            "cursor", activeTab, Some(p), FALSE)

\* the user scrolls the view (scroll listeners of the textarea and of the
\* container)
ScrollView ==
  /\ editorReady /\ currentView # NoView
  /\ Event
  /\ \E k \in (0 .. MaxScroll) \ {scrollTop} :
       Turn(saveScrollPosition([World EXCEPT !.scrollTop = k]),
            "scroll", activeTab, Some(k), FALSE)

\* the browser takes the oldest setTimeout(.., 10) callback to run it
PopTimer10(w) ==
  [w EXCEPT !.timers10 = Tail(@),
            !.timers50 = [i \in DOMAIN @ |->
                            [@[i] EXCEPT !.ahead =
                               IF @ > 0 THEN @ - 1 ELSE 0]]]

\* the oldest setTimeout(.., 10) callback runs
Timer10Fire ==
  /\ timers10 # << >>
  /\ LET tm == Head(timers10)
         w == PopTimer10(World)
     IN CASE tm.kind = "switchView" ->
               Turn(switchViewCallback(w, tm.mode), "viewTimer", activeTab,
                    ViewText, FALSE)
          [] tm.kind = "focus" ->
               Turn(focusCallback(w), "focusTimer", activeTab, None, FALSE)
          [] OTHER ->
               Turn(setActiveTab(w, tm.tab), SwitchKind(tm.tab), activeTab,
                    ViewText, SavePending)
  /\ UNCHANGED steps

\* a click on another tab while the mode is the structured one, when the
\* parser throws for the text of that tab
ClickTabParseFails ==
  /\ editorReady /\ viewMode = "prosemirror"
  /\ Event
  /\ \E t \in Slots \ {activeTab} :
       Turn(setActiveTab([World EXCEPT !.parseThrows = TRUE], t),
            "switchThrows", activeTab, ViewText, SavePending)

\* the callback of a toggle to the structured mode runs, and the parser
\* throws for the text carried over
ToggleParseFails ==
  /\ timers10 # << >>
  /\ Head(timers10).kind = "switchView"
  /\ Head(timers10).mode = "prosemirror"
  /\ Turn(switchViewCallback([PopTimer10(World) EXCEPT !.parseThrows = TRUE],
                             Head(timers10).mode),
          "viewTimerThrows", activeTab, ViewText, FALSE)
  /\ UNCHANGED steps

\* the version and the tab of a setTimeout(.., 50) callback are not the
\* current ones: a later call of updateEditorContent has superseded it
Superseded(tm) == tm.version # updateVersion \/ tm.tab # activeTab

\* the oldest setTimeout(.., 50) callback runs, after the callbacks of
\* 10 ms that were pending when it was set
Timer50Fire ==
  /\ timers50 # << >>
  /\ Head(timers50).ahead = 0
  /\ LET tm == Head(timers50)
         w == [World EXCEPT !.timers50 = Tail(@)]
     IN Turn(timeout50Callback(w, tm), "applyTimer", tm.tab,
             Some(tm.position), Superseded(tm))
  /\ UNCHANGED steps

\* a save timeout expires
SaveTimerFire ==
  /\ \E tm \in saveTimers :
       Turn(saveTimeoutCallback(World, tm), "saveTimer", tm.tabIndex,
            Some(tm.content), tm.coalesced)
  /\ UNCHANGED steps

\* a save timeout fires and the backend's save_note fails
SaveTimerFail ==
  /\ \E tm \in saveTimers :
       Turn(saveTimeoutCallbackRejected(World, tm), "saveFailed",
            tm.tabIndex, Some(tm.content), tm.coalesced)
  /\ UNCHANGED steps

Init == \E n \in [Slots -> Texts] : Start(FreshWorld(n), MaxSteps)

Next ==
  \/ Mount
  \/ TypeMarkdown
  \/ TypeProseMirror
  \/ InsertTimestamp
  \/ BlurProseMirror
  \/ Undo
  \/ Redo
  \/ ToggleMode
  \/ KeydownSwitch
  \/ ClickTab
  \/ SyncUpdate
  \/ ApplySuggestion
  \/ Timer10Fire
  \/ SaveTimerFire

Spec == Init /\ [][Next]_vars

----------------------------------------------------------------------------
(* The editor in markdown mode: the state the program is in when the      *)
(* component has mounted (onMount, its reactive block and the timeouts     *)
(* they set) and the user has toggled the mode once (Ctrl+E and the        *)
(* timeouts of switchView).                                                *)

MountedWorld(n) ==
  LET m1 == EndTurn(onMount(FreshWorld(n)))
      m2 == EndTurn(switchViewCallback(PopTimer10(m1), Head(m1.timers10).mode))
      m3 == EndTurn(focusCallback(PopTimer10(m2)))
  IN EndTurn(timeout50Callback([m3 EXCEPT !.timers50 = Tail(@)],
                               Head(m3.timers50)))

MarkdownWorld(n) ==
  LET m4 == MountedWorld(n)
      m5 == EndTurn(handleGlobalKeyDown(m4))
      m6 == EndTurn(switchViewCallback(PopTimer10(m5), Head(m5.timers10).mode))
  IN EndTurn(focusCallback(PopTimer10(m6)))

InitHistory ==
  \E n \in [Slots -> Texts] : Start(MarkdownWorld(n), MaxHistorySteps)

NextHistory ==
  \/ TypeMarkdown
  \/ InsertTimestamp
  \/ Undo
  \/ Redo
  \/ ClickTab
  \/ SyncUpdate
  \/ ApplySuggestion

SpecHistory == InitHistory /\ [][NextHistory]_vars

----------------------------------------------------------------------------
(* Successive distinct edits of tab 0, each a note-updated-0 event with a  *)
(* text that no earlier edit had.                                          *)

FreshEdit ==
  /\ Len(editLog) < MaxEdits
  /\ TurnLog(updateNote(World, 0, ToString(Len(editLog) + 1)), "sync", 0,
             Some(notes[0]), FALSE)
  /\ editLog' = Append(editLog, notes[0])
  /\ UNCHANGED steps

NextBound == FreshEdit

SpecBound == Init /\ [][NextBound]_vars

----------------------------------------------------------------------------
(* Cursor and scroll positions: the mounted editor, in either mode, with    *)
(* the user moving the cursor, scrolling, switching tabs and toggling the   *)
(* mode, and the timeouts these set.                                        *)

InitPosition ==
  \E n \in [Slots -> Texts] :
    \/ Start(MountedWorld(n), MaxPositionSteps)
    \/ Start(MarkdownWorld(n), MaxPositionSteps)

NextPosition ==
  \/ MoveCursor
  \/ ScrollView
  \/ ClickTab
  \/ KeydownSwitch
  \/ ToggleMode
  \/ Timer10Fire
  \/ Timer50Fire

SpecPosition == InitPosition /\ [][NextPosition]_vars

----------------------------------------------------------------------------
(* Writes to the backend that succeed or fail, between edits of the plain  *)
(* view and tab switches.                                                  *)

InitSave == \E n \in [Slots -> Texts] : Start(MarkdownWorld(n), MaxSaveSteps)

NextSave ==
  \/ TypeMarkdown
  \/ ClickTab
  \/ SaveTimerFire
  \/ SaveTimerFail

SpecSave == InitSave /\ [][NextSave]_vars

----------------------------------------------------------------------------
(* The cursor of the mounted view: the user moves it and switches tabs,    *)
(* and the timeouts of the switches set it.                                *)

NextCursor ==
  \/ MoveCursor
  \/ ClickTab
  \/ Timer50Fire

SpecCursor == InitPosition /\ [][NextCursor]_vars

----------------------------------------------------------------------------
(* The notes store under note-updated events and tab switches.             *)

InitStore ==
  \E n \in [Slots -> Texts] :
    \/ Start(MountedWorld(n), MaxStoreSteps)
    \/ Start(MarkdownWorld(n), MaxStoreSteps)

NextStore ==
  \/ SyncUpdate
  \/ ClickTab

SpecStore == InitStore /\ [][NextStore]_vars

----------------------------------------------------------------------------
(* Tab switches and toggles in which the markdown parser may throw.        *)

InitParse ==
  \E n \in [Slots -> Texts] :
    \/ Start(MountedWorld(n), MaxParseSteps)
    \/ Start(MarkdownWorld(n), MaxParseSteps)

NextParse ==
  \/ ClickTab
  \/ ToggleMode
  \/ Timer10Fire
  \/ ClickTabParseFails
  \/ ToggleParseFails

SpecParse == InitParse /\ [][NextParse]_vars

----------------------------------------------------------------------------
(* The undo and redo keys in the structured view, between edits of the     *)
(* document, updates of the store from outside and tab switches.           *)

InitKeys == \E n \in [Slots -> Texts] : Start(MountedWorld(n), MaxKeySteps)

NextKeys ==
  \/ TypeProseMirror
  \/ KeymapUndo
  \/ KeymapRedo
  \/ SyncUpdate
  \/ ClickTab

SpecKeys == InitKeys /\ [][NextKeys]_vars

----------------------------------------------------------------------------
(* Toggling the mode of the mounted editor, in either mode, between edits  *)
(* of the view, updates of the store from outside and tab switches.        *)

InitToggle ==
  \E n \in [Slots -> Texts] :
    \/ Start(MountedWorld(n), MaxToggleSteps)
    \/ Start(MarkdownWorld(n), MaxToggleSteps)

NextToggle ==
  \/ TypeMarkdown
  \/ TypeProseMirror
  \/ InsertTimestamp
  \/ ToggleMode
  \/ ClickTab
  \/ SyncUpdate
  \/ Timer10Fire

SpecToggle == InitToggle /\ [][NextToggle]_vars

----------------------------------------------------------------------------
(* The startup load: the page is created with empty notes, localStorage    *)
(* holds what earlier sessions left, and load_notes answers for some tabs; *)
(* then the editor is mounted and the user clicks a tab.                   *)

EmptyNotes == [s \in Slots |-> ""]

\* the state of the program before the page's onMount has loaded the notes
UnloadedWorld(ls) == [FreshWorld(EmptyNotes) EXCEPT !.localStorage = ls]

InitLoad == \E ls \in [Slots -> Texts] : Start(UnloadedWorld(ls), MaxLoadSteps)

\* routes/+page.svelte onMount: await loadNotes(); initializeHistory($notes)
LoadNotes ==
  /\ lastOp.kind = "init"
  /\ \E stored \in [Slots -> {None} \cup {Some(t) : t \in Texts}] :
       Turn(loadNotes(World, stored), "load", activeTab, Some(stored), FALSE)
  /\ UNCHANGED steps

\* the page renders the editor when the load has ended
NextLoad ==
  \/ LoadNotes
  \/ (lastOp.kind # "init" /\ Mount)
  \/ Timer10Fire
  \/ ClickTab

SpecLoad == InitLoad /\ [][NextLoad]_vars

----------------------------------------------------------------------------
(* The active tab under calls of setActiveTab and loadActiveTab with any   *)
(* numbers, those outside the tabs included.                                *)

\* the numbers a caller, localStorage or the settings can hold
TabNumbers == -1 .. (MaxSlot + 1)

InitTabs ==
  \E n \in [Slots -> Texts], stored \in {None} \cup {Some(i) : i \in TabNumbers} :
    Start([MountedWorld(n) EXCEPT !.tabStorage = stored], MaxTabSteps)

SetActiveTabCall ==
  /\ Event
  /\ \E i \in TabNumbers :
       Turn(setActiveTab(World, i), "setActiveTab", activeTab, Some(i),
            setActiveTabReturns(i))

LoadActiveTabCall ==
  /\ Event
  /\ \E settingsTab \in {None} \cup {Some(i) : i \in TabNumbers} :
       Turn(loadActiveTab(World, settingsTab), "loadActiveTab", activeTab,
            settingsTab, FALSE)

NextTabs ==
  \/ SetActiveTabCall
  \/ LoadActiveTabCall

SpecTabs == InitTabs /\ [][NextTabs]_vars

----------------------------------------------------------------------------
(* The calls of handleContentChange (input, dispatchTransaction, blur)      *)
(* among changes of the active tab, toggles of the mode and their timers.   *)

InitCommit ==
  \E n \in [Slots -> Texts] :
    \/ Start(MountedWorld(n), MaxCommitSteps)
    \/ Start(MarkdownWorld(n), MaxCommitSteps)

NextCommit ==
  \/ TypeMarkdown
  \/ TypeProseMirror
  \/ BlurProseMirror
  \/ KeydownSwitch
  \/ ClickTab
  \/ ToggleMode
  \/ Timer10Fire

SpecCommit == InitCommit /\ [][NextCommit]_vars

----------------------------------------------------------------------------
(* The stacks of tab 0 at the limit: the plain view is open, the tab takes  *)
(* successive distinct texts, and the user undoes and redoes once the undo   *)
(* stack is near MAX_HISTORY_SIZE.                                           *)

InitCap == Start(MarkdownWorld(EmptyNotes), MaxCapSteps)

NearLimit == Len(editLog) >= MAX_HISTORY_SIZE

UndoNearLimit == NearLimit /\ Undo

RedoNearLimit == NearLimit /\ Redo

NextCap ==
  \/ FreshEdit
  \/ UndoNearLimit
  \/ RedoNearLimit

SpecCap == InitCap /\ [][NextCap]_vars

----------------------------------------------------------------------------
(* Ctrl+T in the plain view, with the text of the timestamp and the         *)
(* selection made explicit.                                                  *)

\* `**${formattedDate}** `: the clock is not modelled, every timestamp is
\* the same text
formattedTimestamp == "**t** "

\* String.prototype.substring(0, start) + inserted + substring(end): the
\* indices are limited to the length of the text
Splice(content, start, end, inserted) ==
  SubSeq(content, 1, Min(start, Len(content))) \o inserted
    \o SubSeq(content, Min(end, Len(content)) + 1, Len(content))

\* MarkdownView.insertTimestamp with the selection start .. end: the text
\* spliced is $notes[$activeTab], the textarea takes the result and the
\* cursor goes behind the timestamp, limited by the textarea to the length
\* of its value; handleContentChange is not called
insertTimestampAt(w, start, end) ==
  LET content == w.notes[w.activeTab]
      newContent == Splice(content, start, end, formattedTimestamp)
  IN [w EXCEPT !.currentView.content = newContent,
               !.selectionHead = Min(start + Len(formattedTimestamp),
                                     Len(newContent))]

InitStamp == \E n \in [Slots -> Texts] : Start(MarkdownWorld(n), MaxStampSteps)

\* Ctrl+T with the selection from the cursor to end
StampSelection ==
  /\ editorReady /\ currentView.mode = "markdown"
  /\ Event
  /\ \E end \in selectionHead .. Len(currentView.content) :
       Turn(insertTimestampAt(World, selectionHead, end), "stamp", activeTab,
            Some([start |-> selectionHead, end |-> end]), FALSE)

NextStamp ==
  \/ StampSelection
  \/ MoveCursor
  \/ TypeMarkdown

SpecStamp == InitStamp /\ [][NextStamp]_vars

----------------------------------------------------------------------------
(* Claims *)

C2_SwitchFlush ==
  [][ ( /\ lastOp.kind = "type" /\ lastOp.upd # None
        /\ lastOp'.kind = "switch" /\ lastOp'.tab = lastOp.upd[1].tab )
      => backend'[lastOp.upd[1].tab] = lastOp.upd[1].text ]_vars

\* C3: in every state, for every tab s with content A and every text
\* B # A: after updateNote(s, B), myundo(s) returns A and the myredo(s) that
\* follows returns B.
C3_UndoRedoInverse ==
  \A s \in Slots : \A b \in Texts \ {notes[s]} :
    LET w1 == updateNote(World, s, b)
        w2 == myundo(w1, s)
        w3 == myredo(w2, s)
    IN w2.result = Some(notes[s]) /\ w3.result = Some(b)

\* C4: in every state where the active tab has something to undo, after the
\* undo (handleUndo) and then an updateNote of that tab with a text that
\* differs from the tab's text, the redo stack of the tab is empty and
\* myredo returns null.
C4_RedoInvalidated ==
  undoHistory[activeTab] # << >> =>
    LET w1 == handleUndo(World) IN
    \A t \in Texts \ {w1.notes[activeTab]} :
      LET w2 == updateNote(w1, activeTab, t) IN
      /\ w2.redoHistory[activeTab] = << >>
      /\ myredo(w2, activeTab).result = None

\* an edit of the active tab was typed right after an undo that returned a
\* text, and nothing is left to redo
C4_Witness ==
  /\ lastOp.kind = "type" /\ lastOp.prev = "undo"
  /\ lastOp.upd # None /\ lastOp.upd[1].text # lastOp.pre[1]
  /\ redoHistory[lastOp.tab] = << >>

\* C5: after MAX_HISTORY_SIZE + 1 successive distinct edits of a tab, its
\* undo stack has MAX_HISTORY_SIZE entries: the MAX_HISTORY_SIZE most recent
\* pre-edit texts, in the order of the edits.
C5_HistoryBound ==
  Len(editLog) >= MAX_HISTORY_SIZE + 1 =>
    /\ Len(undoHistory[0]) = MAX_HISTORY_SIZE
    /\ undoHistory[0] =
         SubSeq(editLog, Len(editLog) - MAX_HISTORY_SIZE + 1, Len(editLog))

\* the edit after which the oldest snapshot is gone
C5_Witness ==
  /\ Len(editLog) = MAX_HISTORY_SIZE + 1
  /\ Len(undoHistory[0]) = MAX_HISTORY_SIZE
  /\ undoHistory[0][1] = editLog[2]

\* C6: an undo with an empty undo stack and a redo with an empty redo stack
\* return null and leave the undo stacks, the redo stacks, the last saved
\* texts and the notes of all tabs as they were.
C6_EmptyHistoryNoOp ==
  [][ ( \/ lastOp'.kind = "undo" /\ undoHistory[activeTab] = << >>
        \/ lastOp'.kind = "redo" /\ redoHistory[activeTab] = << >> )
      => /\ result' = None
         /\ UNCHANGED << undoHistory, redoHistory, lastSavedContent, notes >>
    ]_vars

\* an undo found nothing to undo although the tab has a text
C6_Witness ==
  /\ lastOp.kind = "undo" /\ lastOp.pre = None
  /\ result = None
  /\ notes[lastOp.tab] # ""

\* C7: once the backend holds, for a tab, the text of the latest saveNote
\* call for that tab, no write replaces it by another text until saveNote is
\* called again for the tab.
C7_NoStaleWrite ==
  [][ \A s \in Slots :
        (backend[s] = localStorage[s] /\ localStorage'[s] = localStorage[s])
           => backend'[s] = backend[s] ]_vars

\* the timeout of a saveNote call that replaced a pending write of another
\* text for the same tab has written its text
C7_Witness ==
  /\ lastOp.kind = "saveTimer" /\ lastOp.flag
  /\ backend[lastOp.tab] = lastOp.pre[1]
  /\ localStorage[lastOp.tab] = lastOp.pre[1]

\* C8: no saveNote call cancels the pending write of another tab, so when no
\* save timeout is pending the backend has received, for every tab, the
\* text of the latest saveNote call for it.
C8_PerSlotDebounce ==
  saveTimers = {} => \A s \in Slots : backend[s] = localStorage[s]

\* C9: when updateNote sets a tab to the empty string, the backend has
\* received the empty string for that tab when the turn ends.
C9_EmptySavedAtOnce ==
  (lastOp.upd # None /\ lastOp.upd[1].text = "")
     => backend[lastOp.upd[1].tab] = ""

\* C10: at most one view is constructed and not destroyed.
C10_AtMostOneView == liveViews <= 1

\* C11: a turn that switches the active tab ends with exactly one view on
\* the container, built for the tab requested last from the text the notes
\* store holds for it; and the timeout of a request that a later request
\* has superseded applies no cursor, no scroll offset and no focus: it
\* leaves the view, its cursor, scroll offset and focus and the stored
\* positions as they were.
C11_Supersession ==
  [][ /\ lastOp'.kind = "switch"
         => /\ containerChildren' = 1
            /\ currentView' = NewView(viewMode', notes'[activeTab'], activeTab')
      /\ (lastOp'.kind = "applyTimer" /\ lastOp'.flag)
         => UNCHANGED << currentView, selectionHead, scrollTop, focused,
                         cursorPositions, scrollPositions,
                         containerChildren >>
    ]_vars

\* the timeout of a request for another tab than the one requested last has
\* run, while the timeout of the last request is still pending
C11_Witness ==
  /\ lastOp.kind = "applyTimer" /\ lastOp.flag
  /\ lastOp.tab # activeTab
  /\ timers50 # << >>
  /\ containerChildren = 1 /\ currentView.tab = activeTab
  /\ ~focused

\* the largest cursor position of the view: the length of the textarea's
\* value, the size of the ProseMirror document
ContentLength ==
  IF currentView.mode = "markdown" THEN Len(currentView.content)
  ELSE docSize(currentView.content)

\* C12: the stored cursor and scroll offsets of a tab change only in turns
\* in which that tab is and stays the active tab; a switch to a tab with
\* stored offsets (c, k) sets a timeout that carries (c, k); and when that
\* timeout runs, not superseded and with a view mounted, the view's cursor
\* is min(c, content length) and its scroll offset is k.
C12_PositionRestore ==
  [][ /\ \A s \in Slots :
           (cursorPositions'[s] # cursorPositions[s]
              \/ scrollPositions'[s] # scrollPositions[s])
           => (s = activeTab /\ activeTab' = activeTab)
      /\ lastOp'.kind = "switch"
         => LET tm == timers50'[Len(timers50')] IN
            /\ tm.tab = activeTab'
            /\ cursorPositions[activeTab'] # None
                 => tm.position = cursorPositions[activeTab'][1]
            /\ scrollPositions[activeTab'] # None
                 => tm.scrollTop = scrollPositions[activeTab'][1]
      /\ (lastOp'.kind = "applyTimer" /\ ~lastOp'.flag /\ currentView # NoView)
         => /\ selectionHead' = Min(Head(timers50).position, ContentLength)
            /\ scrollTop' = Head(timers50).scrollTop
    ]_vars

\* the user has left tab 0 with a scroll offset of their own, has come back,
\* and the timeout of the way back has set the stored cursor and scroll
\* offset
C12_Witness ==
  /\ lastOp.kind = "applyTimer" /\ ~lastOp.flag
  /\ activeTab = 0 /\ lastOp.tab = 0
  /\ updateVersion >= 3
  /\ scrollTop > 0 /\ scrollPositions[0] = Some(scrollTop)
  /\ selectionHead = lastOp.pre[1]
  /\ cursorPositions[0] = Some(selectionHead)

\* setCursorPosition of the mounted view, called with any offset
setCursorPosition(w, position) ==
  IF w.currentView.mode = "markdown"
  THEN MarkdownSetCursorPosition(w, position)
  ELSE ProseMirrorSetCursorPosition(w, position)

\* C13: in every state with a view mounted, setCursorPosition with any
\* offset, negative or beyond the content or in between, leaves the cursor
\* within [0, content length], and an offset greater than the content
\* length places it at the content length; this in both views.
C13_CursorClamped ==
  currentView # NoView
    => LET w == World IN
       \A position \in -1 .. (ContentLength + 2) :
         LET head == setCursorPosition(w, position).selectionHead IN
         /\ head \in 0 .. ContentLength
         /\ position > ContentLength => head = ContentLength
         /\ position \in 0 .. ContentLength => head = position

\* the timeout of a tab switch has called setCursorPosition with a stored
\* offset greater than the content length, and the cursor is at the content
\* length
C13_Witness ==
  /\ lastOp.kind = "applyTimer" /\ ~lastOp.flag
  /\ currentView # NoView
  /\ lastOp.pre[1] > ContentLength
  /\ selectionHead = ContentLength

\* a toggle has destroyed the view and its setTimeout(.., 10) callback has
\* not run yet
TogglePending ==
  /\ currentView = NoView
  /\ timers10 # << >> /\ Head(timers10).kind = "switchView"

\* C14: the toggle of the mode keeps in currentContent the text the view of
\* the active tab holds at that moment; no turn but a tab switch changes
\* currentContent while the toggle is pending; and the callback of the
\* toggle that runs next constructs the new view from the text the old view
\* held at the toggle, whatever the notes store holds.
C14_ToggleCarriesViewText ==
  [][ /\ (lastOp'.kind = "toggle" /\ currentView # NoView)
         => currentContent' = currentView.content
      /\ (TogglePending /\ lastOp'.kind \notin {"switch", "viewTimer"})
         => currentContent' = currentContent
      /\ (lastOp.kind = "toggle" /\ lastOp.pre # None
            /\ lastOp'.kind = "viewTimer")
         => currentView' = NewView(viewMode', lastOp.pre[1], activeTab')
    ]_vars

\* the callback of a toggle has built the structured view of the active tab
\* from a text of the plain view that the notes store does not hold
C14_Witness ==
  /\ lastOp.kind = "viewTimer"
  /\ viewMode = "prosemirror"
  /\ currentView = NewView(viewMode, currentContent, activeTab)
  /\ previousTab = activeTab
  /\ currentContent # notes[activeTab]
  /\ currentView.content # MarkdownRoundTrip(notes[activeTab])

\* C15: an undo keystroke in the structured view changes the shared undo
\* and redo stacks of the active tab as myundo(tab) does, and a redo
\* keystroke changes them as myredo(tab) does.
C15_KeysDelegated ==
  [][ /\ lastOp'.kind = "keymapUndo"
         => /\ undoHistory' = myundo(World, activeTab).undoHistory
            /\ redoHistory' = myundo(World, activeTab).redoHistory
      /\ lastOp'.kind = "keymapRedo"
         => /\ undoHistory' = myredo(World, activeTab).undoHistory
            /\ redoHistory' = myredo(World, activeTab).redoHistory
    ]_vars

\* C16: the listeners on editorContainer are those of the views that were
\* constructed and not destroyed: at most two (click, scroll) for each of
\* them, so that their number does not grow with the views constructed and
\* destroyed.
C16_NoDanglingListeners == containerListeners <= 2 * liveViews

IsPrefix(a, b) == Len(a) <= Len(b) /\ SubSeq(b, 1, Len(a)) = a

C18_FailedWriteRetried ==
  [][ lastOp'.kind = "saveFailed"
        => /\ notes' = notes
           /\ \E tm \in saveTimers' :
                /\ tm.tabIndex = lastOp'.tab
                /\ tm.content = notes'[lastOp'.tab]
    ]_vars

\* C19: a tab switch or a toggle in which the parser throws while the
\* structured view is constructed ends with the plain view of the active
\* tab mounted, showing the text of the notes store, alone in the container,
\* and with the notes store's text of that tab as it was.
C19_ParseFailureFallsBack ==
  [][ lastOp'.kind \in {"switchThrows", "viewTimerThrows"}
        => /\ currentView' = MarkdownView(notes'[activeTab'], activeTab')
           /\ containerChildren' = 1
           /\ notes'[activeTab'] = notes[activeTab']
    ]_vars

\* C20: in every state, for every tab s and every text t, the notes store
\* read right after updateNote(s, t) holds t for s and the texts it held
\* for all other tabs; and so it does at the end of a turn that ran
\* updateNote(s, t) for a note-updated event.
C20_SetThenGet ==
  [][ /\ LET w == World IN
         \A s \in Slots : \A t \in Texts :
           LET after == updateNote(w, s, t).notes IN
           /\ after[s] = t
           /\ \A o \in Slots \ {s} : after[o] = notes[o]
      /\ lastOp'.kind = "sync"
         => /\ lastOp'.upd # None
            /\ notes'[lastOp'.tab] = lastOp'.upd[1].text
            /\ \A o \in Slots \ {lastOp'.tab} : notes'[o] = notes[o]
    ]_vars

\* a note-updated event has set a tab that is not the active one to a text
\* it did not hold, and the store holds that text for it
C20_Witness ==
  /\ lastOp.kind = "sync" /\ lastOp.tab # activeTab
  /\ lastOp.upd # None /\ lastOp.upd[1].tab = lastOp.tab
  /\ lastOp.pre # Some(lastOp.upd[1].text)
  /\ notes[lastOp.tab] = lastOp.upd[1].text
  /\ notes[activeTab] # notes[lastOp.tab]

\* C21: at the end of the startup load, the notes store holds the empty
\* text for every tab that the answer of load_notes does not name, and the
\* text of the answer for every tab it names.
C21_LoadDefaultsEmpty ==
  [][ lastOp'.kind = "load"
        => \A s \in Slots :
             LET stored == lastOp'.pre[1] IN
             notes'[s] = IF stored[s] = None THEN "" ELSE stored[s][1]
    ]_vars

\* C22: a turn that runs updateNote(s, t) for typing or for a note-updated
\* event, and changes the text of tab s from p to t # p, ends with p on top
\* of the undo stack of s, so that the next myundo(s) returns p.
C22_SnapshotIsPreEdit ==
  [][ ( /\ lastOp'.kind \in {"type", "sync"}
        /\ lastOp'.upd # None
        /\ notes'[lastOp'.upd[1].tab] # notes[lastOp'.upd[1].tab] )
      => LET s == lastOp'.upd[1].tab IN
         /\ undoHistory'[s] # << >>
         /\ Last(undoHistory'[s]) = notes[s]
    ]_vars

\* C23: when the second callback of a toggle (the one that focuses) has run
\* with the new view mounted, the view has the focus, its cursor is the
\* stored cursor offset of the active tab, clamped to the content length,
\* and its scroll offset is the stored scroll offset of the tab.
C23_ToggleRestoresPosition ==
  [][ (lastOp'.kind = "focusTimer" /\ currentView' # NoView)
      => /\ focused'
         /\ cursorPositions[activeTab] # None
              => selectionHead' = Min(cursorPositions[activeTab][1],
                                      ContentLength')
         /\ scrollPositions[activeTab] # None
              => scrollTop' = scrollPositions[activeTab][1]
    ]_vars

C27_StacksBounded ==
  \A s \in Slots :
    /\ Len(undoHistory[s]) <= MAX_HISTORY_SIZE
    /\ Len(undoHistory[s]) + Len(redoHistory[s]) <= MAX_HISTORY_SIZE

\* a redo took the undo stack of tab 0 back to MAX_HISTORY_SIZE entries
C27_Witness ==
  /\ lastOp.kind = "redo" /\ lastOp.pre # None
  /\ Len(undoHistory[0]) = MAX_HISTORY_SIZE
  /\ Len(editLog) > MAX_HISTORY_SIZE

\* C28: when an undo or a redo changes the active tab's text in the store,
\* saveNote is called for that tab with the restored text in the same turn
\* (localStorage holds the text and the debounced write of it is pending),
\* also when the restored text is empty.
C28_UndoRedoSaved ==
  [][ ( /\ lastOp'.kind \in {"undo", "redo"}
        /\ lastOp'.pre # None
        /\ notes'[lastOp'.tab] # notes[lastOp'.tab] )
      => LET s == lastOp'.tab IN
         /\ localStorage'[s] = notes'[s]
         /\ \E tm \in saveTimers' :
              tm.tabIndex = s /\ tm.content = notes'[s]
    ]_vars

\* C29: when the user has typed nothing (the only events are cursor moves,
\* tab clicks and the timers of the view), a switch to another tab leaves
\* the text of the store, the undo stack and the redo stack of the tab left
\* as they were, also when the structured view serialises its document to a
\* text other than the markdown it was parsed from.
C29_IdleSwitchKeepsSlot ==
  [][ lastOp'.kind = "switch"
      => LET s == lastOp'.tab IN
         /\ notes'[s] = notes[s]
         /\ undoHistory'[s] = undoHistory[s]
         /\ redoHistory'[s] = redoHistory[s]
    ]_vars

\* C30: after Ctrl+T in the plain view the text of the view is the text the
\* view had before with the timestamp in the place of the selection, also
\* when the view held text the store did not have, such as an earlier
\* timestamp.
C30_StampKeepsViewText ==
  [][ lastOp'.kind = "stamp"
      => currentView'.content =
           Splice(currentView.content, lastOp'.pre[1].start,
                  lastOp'.pre[1].end, formattedTimestamp)
    ]_vars

====
